---------------------------- MODULE Spec2Model ----------------------------
(***************************************************************************)
(* Model of pingdom/tms_check.go: the TMS check resource client.           *)
(*                                                                         *)
(* A state holds one invocation of an exported function (call), the        *)
(* position of that invocation (pc), what it returned (ret) and the calls  *)
(* it made on the HTTP client collaborator (trace).  Go strings whose      *)
(* characters matter (Tags) are sequences of one-character strings; the    *)
(* other strings are TLA+ strings.  A Go slice is a record [isNil, elems], *)
(* because encoding/json renders a nil slice as null and an empty one as   *)
(* [].  A *time.Time or *int is a sequence of length 0 (nil) or 1.         *)
(***************************************************************************)
EXTENDS Integers, Sequences, FiniteSets, TLC

VARIABLES call, pc, ret, trace

vars == <<call, pc, ret, trace>>

(***************************************************************************)
(* Bounds of the model.                                                    *)
(***************************************************************************)
MaxTagLen == 3
MaxSteps == 2
MaxSec == 1
MaxLimit == 2
MaxOffset == 1
MaxChecks == 2
MaxParams == 2

(***************************************************************************)
(* Go values.                                                              *)
(***************************************************************************)
NilSlice == [isNil |-> TRUE, elems |-> <<>>]

MkSlice(s) == [isNil |-> FALSE, elems |-> s]

NilPtr == <<>>

Ptr(v) == <<v>>

NoError == "<nil>"

NoValue == [isNil |-> TRUE]

Value(v) == [isNil |-> FALSE, v |-> v]

Digit(d) == <<"0", "1", "2", "3", "4", "5", "6", "7", "8", "9">>[d + 1]

RECURSIVE NatToString(_)
NatToString(n) ==
    IF n < 10 THEN Digit(n) ELSE NatToString(n \div 10) \o Digit(n % 10)

\* strconv.Itoa
Itoa(n) == IF n < 0 THEN "-" \o NatToString(0 - n) ELSE NatToString(n)

(***************************************************************************)
(* strings.Split(s, ","), strings.TrimSpace and strings.Join(l, ",") on    *)
(* sequences of characters.                                                *)
(***************************************************************************)
Comma == ","

IsSpace(c) == c \in {" ", "\t", "\n", "\r"}

RECURSIVE Split(_)
Split(s) ==
    IF \A i \in 1..Len(s) : s[i] # Comma
    THEN <<s>>
    ELSE LET i == CHOOSE k \in 1..Len(s) :
                      s[k] = Comma /\ \A j \in 1..(k - 1) : s[j] # Comma
         IN  <<SubSeq(s, 1, i - 1)>> \o Split(SubSeq(s, i + 1, Len(s)))

RECURSIVE TrimLeft(_)
TrimLeft(s) ==
    IF s # <<>> /\ IsSpace(Head(s)) THEN TrimLeft(Tail(s)) ELSE s

RECURSIVE TrimRight(_)
TrimRight(s) ==
    IF s # <<>> /\ IsSpace(s[Len(s)])
    THEN TrimRight(SubSeq(s, 1, Len(s) - 1))
    ELSE s

TrimSpace(s) == TrimRight(TrimLeft(s))

RECURSIVE Join(_)
Join(l) ==
    IF l = <<>> THEN <<>>
    ELSE IF Len(l) = 1 THEN l[1]
    ELSE l[1] \o <<Comma>> \o Join(Tail(l))

(***************************************************************************)
(* TmsCheck and TmsStep.                                                   *)
(***************************************************************************)
Regions == {"us-east", "us-west", "eu", "au"}

SeverityLevels == {"high", "low"}

Intervals == {5, 10, 20, 60, 720, 1440}

\* TmsCheck.Valid with "au" left out of the regions it accepts.
TmsCheckValid_WithoutAu(ts) ==
    IF ts.Name = ""
    THEN "Invalid value for Name.  Must contain non-empty string"
    ELSE IF ts.Region # "us-east" /\ ts.Region # "us-west" /\ ts.Region # "eu"
    THEN "invalid value " \o ts.Region \o " for Region"
    ELSE IF ts.SeverityLevel # "high" /\ ts.SeverityLevel # "low"
    THEN "invalid value " \o ts.SeverityLevel \o " for SeverityLevel"
    ELSE IF ts.Interval # 5 /\ ts.Interval # 10 /\ ts.Interval # 20
            /\ ts.Interval # 60 /\ ts.Interval # 720 /\ ts.Interval # 1440
    THEN "invalid value " \o Itoa(ts.Interval) \o " for Interval"
    ELSE NoError

\* TmsCheck.Valid: the first failing test decides the error.
TmsCheckValid(ts) ==
    IF ts.Name = ""
    THEN "Invalid value for Name.  Must contain non-empty string"
    ELSE IF ts.Region # "us-east" /\ ts.Region # "us-west"
            /\ ts.Region # "eu" /\ ts.Region # "au"
    THEN "invalid value " \o ts.Region \o " for Region"
    ELSE IF ts.SeverityLevel # "high" /\ ts.SeverityLevel # "low"
    THEN "invalid value " \o ts.SeverityLevel \o " for SeverityLevel"
    ELSE IF ts.Interval # 5 /\ ts.Interval # 10 /\ ts.Interval # 20
            /\ ts.Interval # 60 /\ ts.Interval # 720 /\ ts.Interval # 1440
    THEN "invalid value " \o Itoa(ts.Interval) \o " for Interval"
    ELSE NoError

\* encoding/json of a TmsStep: both fields are omitempty.
StepJSON(st) ==
    LET keys == (IF st.Function # "" THEN {"fn"} ELSE {})
                \cup (IF DOMAIN st.Args # {} THEN {"args"} ELSE {})
    IN  [k \in keys |-> IF k = "fn" THEN st.Function ELSE st.Args]

\* encoding/json of a slice: null when nil, an array otherwise.
IntsJSON(sl) == IF sl.isNil THEN [null |-> TRUE] ELSE [array |-> sl.elems]

StepsJSON(sl) ==
    IF sl.isNil THEN [null |-> TRUE]
    ELSE [array |-> [i \in 1..Len(sl.elems) |-> StepJSON(sl.elems[i])]]

\* The loop of RenderForJSONAPI without the call of TrimSpace.
RenderTags_Untrimmed(tags) == Split(tags)

\* The loop of RenderForJSONAPI: every element of the split, trimmed.
RenderTags(tags) ==
    LET parts == Split(tags)
    IN  [i \in 1..Len(parts) |-> TrimSpace(parts[i])]

\* RenderForJSONAPI as json.Marshal of the struct with its omitempty tags
\* would have it: an entry at its zero value is left out.
RenderForJSONAPI_OmitEmpty(ts) ==
    LET u == [name |-> ts.Name,
              steps |-> StepsJSON(ts.Steps),
              active |-> ts.Active,
              contact_ids |-> IntsJSON(ts.ContactIds),
              custom_message |-> ts.CustomMessage,
              integration_ids |-> IntsJSON(ts.IntegrationIds),
              interval |-> ts.Interval,
              region |-> ts.Region,
              severity_level |-> ts.SeverityLevel,
              send_notification_when_down |-> ts.SendNotificationWhenDown,
              tags |-> [array |-> RenderTags(ts.Tags)],
              team_ids |-> IntsJSON(ts.TeamIds)]
        empty == (IF ts.ContactIds.elems = <<>> THEN {"contact_ids"} ELSE {})
                 \cup (IF ts.CustomMessage = "" THEN {"custom_message"} ELSE {})
                 \cup (IF ts.IntegrationIds.elems = <<>>
                       THEN {"integration_ids"} ELSE {})
                 \cup (IF ts.Interval = 0 THEN {"interval"} ELSE {})
                 \cup (IF ts.Region = "" THEN {"region"} ELSE {})
                 \cup (IF ts.SeverityLevel = "" THEN {"severity_level"} ELSE {})
                 \cup (IF ts.SendNotificationWhenDown = 0
                       THEN {"send_notification_when_down"} ELSE {})
                 \cup (IF ts.Tags = <<>> THEN {"tags"} ELSE {})
                 \cup (IF ts.TeamIds.elems = <<>> THEN {"team_ids"} ELSE {})
    IN  [k \in DOMAIN u \ empty |-> u[k]]

\* TmsCheck.RenderForJSONAPI: json.Marshal of a map with twelve entries.
RenderForJSONAPI(ts) ==
    [name |-> ts.Name,
     steps |-> StepsJSON(ts.Steps),
     active |-> ts.Active,
     contact_ids |-> IntsJSON(ts.ContactIds),
     custom_message |-> ts.CustomMessage,
     integration_ids |-> IntsJSON(ts.IntegrationIds),
     interval |-> ts.Interval,
     region |-> ts.Region,
     severity_level |-> ts.SeverityLevel,
     send_notification_when_down |-> ts.SendNotificationWhenDown,
     tags |-> [array |-> RenderTags(ts.Tags)],
     team_ids |-> IntsJSON(ts.TeamIds)]

\* fromTmsCheckResponse
fromTmsCheckResponse(cr) ==
    [ID |-> cr.ID,
     Name |-> cr.Name,
     Steps |-> cr.Steps,
     Active |-> cr.Active,
     ContactIds |-> cr.ContactIds,
     CustomMessage |-> cr.CustomMessage,
     IntegrationIds |-> cr.IntegrationIds,
     Interval |-> cr.Interval,
     Region |-> cr.Region,
     SendNotificationWhenDown |-> cr.SendNotificationWhenDown,
     SeverityLevel |-> cr.SeverityLevel,
     Tags |-> Join(cr.Tags.elems),
     TeamIds |-> cr.TeamIds]

(***************************************************************************)
(* time.Time, as seconds and nanoseconds after a fixed instant.            *)
(***************************************************************************)
\* Time.Before
Before(t, u) == t.sec < u.sec \/ (t.sec = u.sec /\ t.nsec < u.nsec)

\* Time.Format(time.RFC3339): whole seconds, the nanoseconds are dropped.
FormatRFC3339(t) ==
    "1970-01-01T00:00:" \o (IF t.sec < 10 THEN "0" ELSE "") \o Itoa(t.sec) \o "Z"

(***************************************************************************)
(* The report requests.                                                    *)
(***************************************************************************)
DESC == "desc"

ASC == "asc"

HOUR == "hour"

DAY == "day"

WEEK == "week"

EmptyMap == [k \in {} |-> ""]

\* m[k] = v on a map[string]string
Put(m, k, v) == [x \in DOMAIN m \cup {k} |-> IF x = k THEN v ELSE m[x]]

\* The test on To and From with "not after" in the place of "before".
ToBeforeFrom_NotAfter(tr) ==
    tr.To # NilPtr /\ tr.From # NilPtr /\ ~Before(tr.From[1], tr.To[1])

\* The test on To and From that opens the three Valid methods.
ToBeforeFrom(tr) ==
    tr.To # NilPtr /\ tr.From # NilPtr /\ Before(tr.To[1], tr.From[1])

\* The switch on Order of the three Valid methods.
OrderAllowed(o) == o = DESC \/ o = ASC \/ o = ""

\* The switch on Resolution of TmsPerformanceReportRequest.Valid.
ResolutionAllowed(r) == r = HOUR \/ r = DAY \/ r = WEEK \/ r = ""

ErrFromTo == "from date should be earlier then to date"

ErrOrder == "invalid order allowed values are: asc, desc"

ErrOffset == "offset should be greater equal 0"

ErrLimit == "limit should be greater 0"

ErrResolution == "invalid order allowed values are: hour, day. week"

\* TmsStatusReportListByIdRequest.Valid
ByIdValid(tr) ==
    IF ToBeforeFrom(tr) THEN ErrFromTo
    ELSE IF ~OrderAllowed(tr.Order) THEN ErrOrder
    ELSE NoError

\* TmsStatusReportListByIdRequest.GetParams
ByIdGetParams(tr) ==
    LET m1 == IF tr.From # NilPtr
              THEN Put(EmptyMap, "from", FormatRFC3339(tr.From[1]))
              ELSE EmptyMap
        m2 == IF tr.To # NilPtr
              THEN Put(m1, "to", FormatRFC3339(tr.To[1]))
              ELSE m1
    IN  IF tr.Order # "" THEN Put(m2, "order", tr.Order) ELSE m2

\* TmsStatusReportListRequest.Valid refusing an offset of 0.
ListValid_OffsetPositive(tr) ==
    IF ToBeforeFrom(tr) THEN ErrFromTo
    ELSE IF tr.Offset # NilPtr /\ tr.Offset[1] <= 0 THEN ErrOffset
    ELSE IF tr.Limit # NilPtr /\ tr.Limit[1] <= 0 THEN ErrLimit
    ELSE IF ~OrderAllowed(tr.Order) THEN ErrOrder
    ELSE NoError

\* TmsStatusReportListRequest.Valid
ListValid(tr) ==
    IF ToBeforeFrom(tr) THEN ErrFromTo
    ELSE IF tr.Offset # NilPtr /\ tr.Offset[1] < 0 THEN ErrOffset
    ELSE IF tr.Limit # NilPtr /\ tr.Limit[1] <= 0 THEN ErrLimit
    ELSE IF ~OrderAllowed(tr.Order) THEN ErrOrder
    ELSE NoError

\* TmsStatusReportListRequest.GetParams writing the flag whatever it holds.
ListGetParams_FlagAlways(tr) ==
    LET m1 == IF tr.From # NilPtr
              THEN Put(EmptyMap, "from", FormatRFC3339(tr.From[1]))
              ELSE EmptyMap
        m2 == IF tr.To # NilPtr
              THEN Put(m1, "to", FormatRFC3339(tr.To[1]))
              ELSE m1
        m3 == IF tr.Offset # NilPtr
              THEN Put(m2, "offset", Itoa(tr.Offset[1]))
              ELSE m2
        m4 == IF tr.Limit # NilPtr
              THEN Put(m3, "limit", Itoa(tr.Limit[1]))
              ELSE m3
        m5 == IF tr.Order # "" THEN Put(m4, "order", tr.Order) ELSE m4
    IN  Put(m5, "omit_empty", IF tr.OmitEmpty THEN "true" ELSE "false")

\* TmsStatusReportListRequest.GetParams
ListGetParams(tr) ==
    LET m1 == IF tr.From # NilPtr
              THEN Put(EmptyMap, "from", FormatRFC3339(tr.From[1]))
              ELSE EmptyMap
        m2 == IF tr.To # NilPtr
              THEN Put(m1, "to", FormatRFC3339(tr.To[1]))
              ELSE m1
        m3 == IF tr.Offset # NilPtr
              THEN Put(m2, "offset", Itoa(tr.Offset[1]))
              ELSE m2
        m4 == IF tr.Limit # NilPtr
              THEN Put(m3, "limit", Itoa(tr.Limit[1]))
              ELSE m3
        m5 == IF tr.Order # "" THEN Put(m4, "order", tr.Order) ELSE m4
    IN  IF tr.OmitEmpty THEN Put(m5, "omit_empty", "true") ELSE m5

\* TmsPerformanceReportRequest.Valid without the switch on Resolution.
PerfValid_NoResolution(tr) ==
    IF ToBeforeFrom(tr) THEN ErrFromTo
    ELSE IF ~OrderAllowed(tr.Order) THEN ErrOrder
    ELSE NoError

\* TmsPerformanceReportRequest.Valid
PerfValid(tr) ==
    IF ToBeforeFrom(tr) THEN ErrFromTo
    ELSE IF ~OrderAllowed(tr.Order) THEN ErrOrder
    ELSE IF ~ResolutionAllowed(tr.Resolution) THEN ErrResolution
    ELSE NoError

\* TmsPerformanceReportRequest.GetParams
PerfGetParams(tr) ==
    LET m1 == IF tr.From # NilPtr
              THEN Put(EmptyMap, "from", FormatRFC3339(tr.From[1]))
              ELSE EmptyMap
        m2 == IF tr.To # NilPtr
              THEN Put(m1, "to", FormatRFC3339(tr.To[1]))
              ELSE m1
        m3 == IF tr.Order # "" THEN Put(m2, "order", tr.Order) ELSE m2
        m4 == IF tr.IncludeUptime
              THEN Put(m3, "include_uptime", "true")
              ELSE m3
    IN  IF tr.Resolution # "" THEN Put(m4, "resolution", tr.Resolution) ELSE m4

(***************************************************************************)
(* The values the callers pass.                                            *)
(***************************************************************************)
SeqsUpTo(S, n) == UNION {[1..k -> S] : k \in 0..n}

TagChars == {"a", " ", ","}

TagStrings == SeqsUpTo(TagChars, MaxTagLen)

StepValues ==
    {[Function |-> "go_to", Args |-> [url |-> "example.com"]],
     [Function |-> "", Args |-> EmptyMap]}

StepSlices == {NilSlice} \cup {MkSlice(s) : s \in SeqsUpTo(StepValues, MaxSteps)}

IntSlices == {NilSlice, MkSlice(<<7>>)}

\* NewTmsCheck: the defaults of the Pingdom TMS check API.
NewTmsCheck(name, steps) ==
    [ID |-> 0, Name |-> name, Steps |-> steps, Active |-> TRUE,
     ContactIds |-> NilSlice, CustomMessage |-> "",
     IntegrationIds |-> NilSlice, Interval |-> 10, Region |-> "us-east",
     SendNotificationWhenDown |-> 1, SeverityLevel |-> "high",
     Tags |-> <<>>, TeamIds |-> NilSlice]

\* A check with every optional field set.
FullCheck ==
    [ID |-> 5, Name |-> "web", Steps |-> MkSlice(<<>>), Active |-> TRUE,
     ContactIds |-> MkSlice(<<7>>), CustomMessage |-> "down",
     IntegrationIds |-> MkSlice(<<7>>), Interval |-> 10, Region |-> "eu",
     SendNotificationWhenDown |-> 1, SeverityLevel |-> "low",
     Tags |-> <<"a", ",", " ", "a">>, TeamIds |-> MkSlice(<<7>>)]

\* Every combination of the four validated fields, on two settings of the
\* other fields.
GridChecks ==
    {[c EXCEPT !.Name = n, !.Region = r, !.SeverityLevel = s, !.Interval = i] :
        c \in {NewTmsCheck("", NilSlice), FullCheck},
        n \in {"", "web"},
        r \in Regions \cup {"mars", ""},
        s \in SeverityLevels \cup {"medium"},
        i \in Intervals \cup {0, 15}}

\* Every tag string, on a check that is otherwise the default one.
TagChecks ==
    {[NewTmsCheck("web", st) EXCEPT !.Tags = t] :
        t \in TagStrings, st \in {NilSlice, MkSlice(<<>>)}}

\* Every combination of the fields Valid does not read.
FieldChecks ==
    {[NewTmsCheck("web", st) EXCEPT !.Active = a, !.ContactIds = ci,
                                   !.CustomMessage = cm, !.IntegrationIds = ii,
                                   !.SendNotificationWhenDown = sn,
                                   !.Tags = t, !.TeamIds = ti] :
        st \in StepSlices, a \in BOOLEAN, ci \in IntSlices,
        cm \in {"", "down"}, ii \in IntSlices, sn \in {0, 1},
        t \in {<<>>, <<"a">>}, ti \in IntSlices \cup {MkSlice(<<>>)}}

Checks == GridChecks \cup TagChecks \cup FieldChecks

Ids == {-3, 7, 42}

Times == [sec : 0..MaxSec, nsec : {0, 500}]

TimePtrs == {NilPtr} \cup {Ptr(t) : t \in Times}

Orders == {"", ASC, DESC, "sideways"}

Resolutions == {"", HOUR, DAY, WEEK, "month"}

Limits == {NilPtr} \cup {Ptr(n) : n \in (0 - 1)..MaxLimit}

Offsets == {NilPtr} \cup {Ptr(n) : n \in (0 - 1)..MaxOffset}

ByIdRequests == [From : TimePtrs, To : TimePtrs, Order : Orders]

ListRequests ==
    [From : TimePtrs, To : TimePtrs, Order : Orders, Limit : Limits,
     Offset : Offsets, OmitEmpty : BOOLEAN]

PerfRequests ==
    [From : TimePtrs, To : TimePtrs, Order : Orders,
     IncludeUptime : BOOLEAN, Resolution : Resolutions]

\* The variadic argument of List.
ParamMaps == {EmptyMap, [tags |-> "a"]}

ListArgs == SeqsUpTo(ParamMaps, MaxParams)

Calls ==
    {[op |-> "Create", check |-> c] : c \in Checks}
    \cup {[op |-> "Update", id |-> i, check |-> c] : i \in Ids, c \in Checks}
    \cup {[op |-> "RenderForJSONAPI", check |-> c] : c \in Checks}
    \cup {[op |-> "List", params |-> p] : p \in ListArgs}
    \cup {[op |-> "Read", id |-> i] : i \in Ids}
    \cup {[op |-> "Delete", id |-> i] : i \in Ids}
    \cup {[op |-> "StatusReportList", request |-> r] : r \in ListRequests}
    \cup {[op |-> "StatusReportById", id |-> i, request |-> r] :
            i \in Ids, r \in ByIdRequests}
    \cup {[op |-> "PerformanceReport", id |-> i, request |-> r] :
            i \in Ids, r \in PerfRequests}
    \cup {[op |-> "ListGetParams", request |-> r] : r \in ListRequests}
    \cup {[op |-> "ByIdGetParams", request |-> r] : r \in ByIdRequests}
    \cup {[op |-> "PerfGetParams", request |-> r] : r \in PerfRequests}

(***************************************************************************)
(* The HTTP client collaborator and the service behind it.  An entry of    *)
(* trace is one call on the collaborator with what it answered.            *)
(***************************************************************************)
NewRequest(method, path, params, err) ==
    [fn |-> "NewRequest", method |-> method, path |-> path,
     params |-> params, err |-> err]

NewJSONRequest(method, path, body, err) ==
    [fn |-> "NewJSONRequest", method |-> method, path |-> path,
     body |-> body, err |-> err]

\* Client.Do and http.Client.Do: one HTTP exchange.
Do(req, err, reply) ==
    [fn |-> "Do", method |-> req.method, path |-> req.path,
     err |-> err, reply |-> reply]

RequestError == "request error"

TransportError == "transport error"

ResponseError == "response error"

DecodeError == "decode error"

\* What Client.Do can fail with.
DoErrors == {TransportError, ResponseError, DecodeError}

SliceFromJSON(j) == IF "null" \in DOMAIN j THEN NilSlice ELSE MkSlice(j.array)

StepFromJSON(j) ==
    [Function |-> IF "fn" \in DOMAIN j THEN j.fn ELSE "",
     Args |-> IF "args" \in DOMAIN j THEN j.args ELSE EmptyMap]

StepsFromJSON(j) ==
    IF "null" \in DOMAIN j THEN NilSlice
    ELSE MkSlice([i \in 1..Len(j.array) |-> StepFromJSON(j.array[i])])

\* The TmsCheckResponse of a service that stores what it was sent.
EchoResponse(body, id) ==
    [ID |-> id,
     Name |-> body.name,
     Steps |-> StepsFromJSON(body.steps),
     Active |-> body.active,
     ContactIds |-> SliceFromJSON(body.contact_ids),
     CustomMessage |-> body.custom_message,
     IntegrationIds |-> SliceFromJSON(body.integration_ids),
     Interval |-> body.interval,
     Region |-> body.region,
     SendNotificationWhenDown |-> body.send_notification_when_down,
     SeverityLevel |-> body.severity_level,
     Tags |-> SliceFromJSON(body.tags),
     TeamIds |-> SliceFromJSON(body.team_ids)]

\* Checks the service already holds.
StoredResponses ==
    {[ID |-> 9, Name |-> "api", Steps |-> NilSlice, Active |-> FALSE,
      ContactIds |-> NilSlice, CustomMessage |-> "",
      IntegrationIds |-> NilSlice, Interval |-> 5, Region |-> "au",
      SendNotificationWhenDown |-> 0, SeverityLevel |-> "low",
      Tags |-> NilSlice, TeamIds |-> NilSlice],
     [ID |-> 10, Name |-> "shop", Steps |-> MkSlice(<<>>), Active |-> TRUE,
      ContactIds |-> MkSlice(<<7>>), CustomMessage |-> "down",
      IntegrationIds |-> NilSlice, Interval |-> 60, Region |-> "eu",
      SendNotificationWhenDown |-> 1, SeverityLevel |-> "high",
      Tags |-> MkSlice(<<(<<"a">>), (<<"a", "a">>)>>), TeamIds |-> NilSlice]}

\* The identifiers the service gives a check it creates.
ServerAssignedIds == {101}

\* The check field of a decoded tmsCheckDetailsJSONResponse: nil when the
\* body has no such member.
CheckDetails(sent) ==
    {NilPtr} \cup {Ptr(r) : r \in sent \cup StoredResponses}

\* A decoded status or performance report.
Reports == {[report |-> "empty"], [report |-> "one entry"]}

Return(v, e, tr) ==
    /\ pc' = "returned"
    /\ ret' = [val |-> v, err |-> e]
    /\ trace' = tr
    /\ UNCHANGED call

\* A nil pointer dereference ends the call without a result.
Panic(tr) ==
    /\ pc' = "panicked"
    /\ trace' = tr
    /\ UNCHANGED <<call, ret>>

(***************************************************************************)
(* The response bodies List can read, and json.Unmarshal on them into a    *)
(* pointer to a *listTmsChecksJSONResponse: m is the pointer afterwards    *)
(* (its TmsChecks when not nil), err what Unmarshal returns.               *)
(***************************************************************************)
ListBodies ==
    {[kind |-> k, checks |-> l] :
        k \in {"json", "type mismatch"},
        l \in SeqsUpTo(StoredResponses, MaxChecks)}
    \cup {[kind |-> "syntax error", checks |-> <<>>],
          [kind |-> "null", checks |-> <<>>]}

Unmarshal(body) ==
    CASE body.kind = "json" -> [m |-> Ptr(body.checks), err |-> NoError]
      [] body.kind = "type mismatch" ->
            [m |-> Ptr(body.checks), err |-> DecodeError]
      [] body.kind = "syntax error" -> [m |-> Ptr(<<>>), err |-> DecodeError]
      [] body.kind = "null" -> [m |-> NilPtr, err |-> NoError]

\* validateResponse
validateResponse(resp) ==
    IF resp.status = "2xx" THEN NoError ELSE ResponseError

(***************************************************************************)
(* Variants of three operations: List returning the error of Unmarshal,    *)
(* Read trying a second time when the exchange fails, and StatusReportById *)
(* going on after a failed validation.                                     *)
(***************************************************************************)
List_ReturnsDecodeError ==
    /\ pc = "called" /\ call.op = "List"
    /\ LET param == IF Len(call.params) = 1 THEN call.params[1] ELSE EmptyMap
           req == NewRequest("GET", "/tms/check", param, NoError)
       IN  \/ Return(NoValue, RequestError,
                     <<[req EXCEPT !.err = RequestError]>>)
           \/ Return(NoValue, TransportError,
                     <<req, Do(req, TransportError, NilPtr)>>)
           \/ \E resp \in {[status |-> "non-2xx",
                            body |-> [kind |-> "json", checks |-> <<>>]]}
                      \cup {[status |-> "2xx", body |-> b] : b \in ListBodies} :
                LET tr == <<req, Do(req, NoError, Ptr(resp))>>
                    dec == Unmarshal(resp.body)
                IN  IF validateResponse(resp) # NoError
                    THEN Return(NoValue, validateResponse(resp), tr)
                    ELSE IF dec.err # NoError
                    THEN Return(NoValue, dec.err, tr)
                    ELSE IF dec.m = NilPtr
                    THEN Panic(tr)
                    ELSE Return(Value(MkSlice(
                                    [i \in 1..Len(dec.m[1]) |->
                                        fromTmsCheckResponse(dec.m[1][i])])),
                                NoError, tr)

Read_Retrying ==
    /\ pc = "called" /\ call.op = "Read"
    /\ LET req == NewRequest("GET", "/tms/check/" \o Itoa(call.id),
                             EmptyMap, NoError)
       IN  \/ Return(NoValue, RequestError,
                     <<[req EXCEPT !.err = RequestError]>>)
           \/ \E e \in DoErrors :
                Return(NoValue, e,
                       <<req, Do(req, e, NilPtr), Do(req, e, NilPtr)>>)
           \/ \E m \in CheckDetails({}) :
                LET tr == <<req, Do(req, NoError, m)>>
                IN  IF m = NilPtr
                    THEN Panic(tr)
                    ELSE Return(Value(fromTmsCheckResponse(m[1])),
                                NoError, tr)

StatusReportById_Unchecked ==
    /\ pc = "called" /\ call.op = "StatusReportById"
    /\ LET req == NewRequest("GET",
                             "/tms/check/" \o Itoa(call.id) \o "/report/status",
                             ByIdGetParams(call.request), NoError)
       IN  \/ Return(NoValue, RequestError,
                     <<[req EXCEPT !.err = RequestError]>>)
           \/ \E e \in DoErrors :
                Return(NoValue, e, <<req, Do(req, e, NilPtr)>>)
           \/ \E m \in Reports :
                Return(Value(m), NoError,
                       <<req, Do(req, NoError, Ptr(m))>>)

(***************************************************************************)
(* The operations of TmsCheckService.                                      *)
(***************************************************************************)
List ==
    /\ pc = "called" /\ call.op = "List"
    /\ LET param == IF Len(call.params) = 1 THEN call.params[1] ELSE EmptyMap
           req == NewRequest("GET", "/tms/check", param, NoError)
       IN  \/ Return(NoValue, RequestError,
                     <<[req EXCEPT !.err = RequestError]>>)
           \/ Return(NoValue, TransportError,
                     <<req, Do(req, TransportError, NilPtr)>>)
           \/ \E resp \in {[status |-> "non-2xx",
                            body |-> [kind |-> "json", checks |-> <<>>]]}
                      \cup {[status |-> "2xx", body |-> b] : b \in ListBodies} :
                LET tr == <<req, Do(req, NoError, Ptr(resp))>>
                    dec == Unmarshal(resp.body)
                IN  IF validateResponse(resp) # NoError
                    THEN Return(NoValue, validateResponse(resp), tr)
                    ELSE IF dec.m = NilPtr
                    THEN Panic(tr)
                    ELSE Return(Value(MkSlice(
                                    [i \in 1..Len(dec.m[1]) |->
                                        fromTmsCheckResponse(dec.m[1][i])])),
                                NoError, tr)

Create ==
    /\ pc = "called" /\ call.op = "Create"
    /\ LET err == TmsCheckValid(call.check)
           req == NewJSONRequest("POST", "/tms/check",
                                 RenderForJSONAPI(call.check), NoError)
       IN  IF err # NoError
           THEN Return(NoValue, err, <<>>)
           ELSE \/ Return(NoValue, RequestError,
                          <<[req EXCEPT !.err = RequestError]>>)
                \/ \E e \in DoErrors :
                     Return(NoValue, e, <<req, Do(req, e, NilPtr)>>)
                \/ \E m \in CheckDetails(
                              {EchoResponse(req.body, id) :
                                  id \in ServerAssignedIds}) :
                     LET tr == <<req, Do(req, NoError, m)>>
                     IN  IF m = NilPtr
                         THEN Panic(tr)
                         ELSE Return(Value(fromTmsCheckResponse(m[1])),
                                     NoError, tr)

Read ==
    /\ pc = "called" /\ call.op = "Read"
    /\ LET req == NewRequest("GET", "/tms/check/" \o Itoa(call.id),
                             EmptyMap, NoError)
       IN  \/ Return(NoValue, RequestError,
                     <<[req EXCEPT !.err = RequestError]>>)
           \/ \E e \in DoErrors :
                Return(NoValue, e, <<req, Do(req, e, NilPtr)>>)
           \/ \E m \in CheckDetails({}) :
                LET tr == <<req, Do(req, NoError, m)>>
                IN  IF m = NilPtr
                    THEN Panic(tr)
                    ELSE Return(Value(fromTmsCheckResponse(m[1])),
                                NoError, tr)

Update ==
    /\ pc = "called" /\ call.op = "Update"
    /\ LET err == TmsCheckValid(call.check)
           req == NewJSONRequest("PUT", "/tms/check/" \o Itoa(call.id),
                                 RenderForJSONAPI(call.check), NoError)
       IN  IF err # NoError
           THEN Return(NoValue, err, <<>>)
           ELSE \/ Return(NoValue, RequestError,
                          <<[req EXCEPT !.err = RequestError]>>)
                \/ \E e \in DoErrors :
                     Return(NoValue, e, <<req, Do(req, e, NilPtr)>>)
                \/ \E m \in CheckDetails({EchoResponse(req.body, call.id)}) :
                     LET tr == <<req, Do(req, NoError, m)>>
                     IN  IF m = NilPtr
                         THEN Panic(tr)
                         ELSE Return(Value(fromTmsCheckResponse(m[1])),
                                     NoError, tr)

Delete ==
    /\ pc = "called" /\ call.op = "Delete"
    /\ LET req == NewRequest("DELETE", "/tms/check/" \o Itoa(call.id),
                             EmptyMap, NoError)
           m == [Message |-> "Deletion of check was successful!"]
       IN  \/ Return(NoValue, RequestError,
                     <<[req EXCEPT !.err = RequestError]>>)
           \/ \E e \in DoErrors :
                Return(NoValue, e, <<req, Do(req, e, NilPtr)>>)
           \/ Return(Value(m), NoError, <<req, Do(req, NoError, Ptr(m))>>)

StatusReportList ==
    /\ pc = "called" /\ call.op = "StatusReportList"
    /\ LET err == ListValid(call.request)
           req == NewRequest("GET", "/tms/check/report/status",
                             ListGetParams(call.request), NoError)
       IN  IF err # NoError
           THEN Return(NoValue, err, <<>>)
           ELSE \/ Return(NoValue, RequestError,
                          <<[req EXCEPT !.err = RequestError]>>)
                \/ \E e \in DoErrors :
                     Return(NoValue, e, <<req, Do(req, e, NilPtr)>>)
                \/ \E m \in Reports :
                     Return(Value(m), NoError,
                            <<req, Do(req, NoError, Ptr(m))>>)

StatusReportById ==
    /\ pc = "called" /\ call.op = "StatusReportById"
    /\ LET err == ByIdValid(call.request)
           req == NewRequest("GET",
                             "/tms/check/" \o Itoa(call.id) \o "/report/status",
                             ByIdGetParams(call.request), NoError)
       IN  IF err # NoError
           THEN Return(NoValue, err, <<>>)
           ELSE \/ Return(NoValue, RequestError,
                          <<[req EXCEPT !.err = RequestError]>>)
                \/ \E e \in DoErrors :
                     Return(NoValue, e, <<req, Do(req, e, NilPtr)>>)
                \/ \E m \in Reports :
                     Return(Value(m), NoError,
                            <<req, Do(req, NoError, Ptr(m))>>)

PerformanceReport ==
    /\ pc = "called" /\ call.op = "PerformanceReport"
    /\ LET err == PerfValid(call.request)
           req == NewRequest("GET",
                             "/tms/check/" \o Itoa(call.id)
                                 \o "/report/performance",
                             PerfGetParams(call.request), NoError)
       IN  IF err # NoError
           THEN Return(NoValue, err, <<>>)
           ELSE \/ Return(NoValue, RequestError,
                          <<[req EXCEPT !.err = RequestError]>>)
                \/ \E e \in DoErrors :
                     Return(NoValue, e, <<req, Do(req, e, NilPtr)>>)
                \/ \E m \in Reports :
                     Return(Value(m), NoError,
                            <<req, Do(req, NoError, Ptr(m))>>)

(***************************************************************************)
(* Direct calls of the exported methods that do no I/O.                    *)
(***************************************************************************)
CallRenderForJSONAPI ==
    /\ pc = "called" /\ call.op = "RenderForJSONAPI"
    /\ Return(Value(RenderForJSONAPI(call.check)), NoError, <<>>)

CallListGetParams ==
    /\ pc = "called" /\ call.op = "ListGetParams"
    /\ Return(Value(ListGetParams(call.request)), NoError, <<>>)

CallByIdGetParams ==
    /\ pc = "called" /\ call.op = "ByIdGetParams"
    /\ Return(Value(ByIdGetParams(call.request)), NoError, <<>>)

CallPerfGetParams ==
    /\ pc = "called" /\ call.op = "PerfGetParams"
    /\ Return(Value(PerfGetParams(call.request)), NoError, <<>>)

Init ==
    /\ call \in Calls
    /\ pc = "called"
    /\ ret = [val |-> NoValue, err |-> NoError]
    /\ trace = <<>>

Next ==
    \/ List
    \/ Create
    \/ Read
    \/ Update
    \/ Delete
    \/ StatusReportList
    \/ StatusReportById
    \/ PerformanceReport
    \/ CallRenderForJSONAPI
    \/ CallListGetParams
    \/ CallByIdGetParams
    \/ CallPerfGetParams

Spec == Init /\ [][Next]_vars

(***************************************************************************)
(* Vocabulary of the properties.                                           *)
(***************************************************************************)
CheckOps == {"Create", "Update"}

ReportOps == {"StatusReportList", "StatusReportById", "PerformanceReport"}

ValidatingOps == CheckOps \cup ReportOps

ServiceOps == ValidatingOps \cup {"List", "Read", "Delete"}

Done == pc # "called"

\* What Valid() answers on the argument of a validating operation.
ArgValid ==
    CASE call.op \in CheckOps -> TmsCheckValid(call.check)
      [] call.op = "StatusReportList" -> ListValid(call.request)
      [] call.op = "StatusReportById" -> ByIdValid(call.request)
      [] call.op = "PerformanceReport" -> PerfValid(call.request)
      [] OTHER -> NoError

\* The call came back with an error before it touched the collaborator.
Rejected == pc = "returned" /\ trace = <<>> /\ ret.err # NoError

\* The number of HTTP exchanges of the call.
Exchanges == Cardinality({i \in DOMAIN trace : trace[i].fn = "Do"})

BothSet(tr) == tr.From # NilPtr /\ tr.To # NilPtr

(***************************************************************************)
(* C1: Valid() on a TmsCheck returns no error exactly when Name is not     *)
(* empty, Region is one of us-east, us-west, eu, au, SeverityLevel is high *)
(* or low and Interval is one of 5, 10, 20, 60, 720, 1440; replacing every *)
(* other field of the check leaves the answer as it was.  Create and       *)
(* Update reject exactly the checks that fail this test.                   *)
(***************************************************************************)
Submittable(ts) ==
    /\ ts.Name # ""
    /\ ts.Region \in Regions
    /\ ts.SeverityLevel \in SeverityLevels
    /\ ts.Interval \in Intervals

\* The check d with the four validated fields of c.
WithValidatedFields(d, c) ==
    [d EXCEPT !.Name = c.Name, !.Region = c.Region,
              !.SeverityLevel = c.SeverityLevel, !.Interval = c.Interval]

C1_ValidIffFourFields ==
    (call.op \in CheckOps /\ Done) =>
        /\ (TmsCheckValid(call.check) = NoError) <=> Submittable(call.check)
        /\ Rejected <=> ~Submittable(call.check)
        /\ \A d \in {NewTmsCheck("", NilSlice), FullCheck} :
              TmsCheckValid(WithValidatedFields(d, call.check))
                  = TmsCheckValid(call.check)

C1_Witness ==
    /\ call.op = "Create" /\ pc = "returned" /\ ret.err = NoError
    /\ call.check.Region = "au" /\ call.check.Interval = 1440
    /\ call.check.CustomMessage = "down" /\ call.check.Tags # <<>>

(***************************************************************************)
(* C2: when Valid() fails on the argument of Create, Update,               *)
(* StatusReportList, StatusReportById or PerformanceReport, the operation  *)
(* returns a nil result with that validation error and has made no call on *)
(* the HTTP client collaborator.                                           *)
(***************************************************************************)
C2_InvalidShortCircuits ==
    (call.op \in ValidatingOps /\ Done /\ ArgValid # NoError) =>
        /\ pc = "returned"
        /\ ret = [val |-> NoValue, err |-> ArgValid]
        /\ trace = <<>>

C2_Witness ==
    /\ call.op = "StatusReportById" /\ pc = "returned"
    /\ call.id = 7 /\ call.request.Order = "sideways"
    /\ call.request.From = NilPtr /\ call.request.To = NilPtr
    /\ ret.err = ErrOrder /\ trace = <<>>

(***************************************************************************)
(* C3: a call whose validation passes builds one request with the method   *)
(* and path of the interface table; when building it succeeds the call     *)
(* makes exactly one HTTP exchange, of that request, and nothing else;     *)
(* Create and Update send the whole rendered body.                         *)
(***************************************************************************)
TableMethod ==
    CASE call.op = "Create" -> "POST"
      [] call.op = "Update" -> "PUT"
      [] call.op = "Delete" -> "DELETE"
      [] OTHER -> "GET"

IdText == CASE call.id = 42 -> "42" [] call.id = 7 -> "7" [] call.id = -3 -> "-3"

TablePath ==
    CASE call.op \in {"List", "Create"} -> "/tms/check"
      [] call.op \in {"Read", "Update", "Delete"} -> "/tms/check/" \o IdText
      [] call.op = "StatusReportList" -> "/tms/check/report/status"
      [] call.op = "StatusReportById" ->
            "/tms/check/" \o IdText \o "/report/status"
      [] call.op = "PerformanceReport" ->
            "/tms/check/" \o IdText \o "/report/performance"

C3_OneExchangePerCall ==
    (call.op \in ServiceOps /\ Done /\ ArgValid = NoError) =>
        /\ Len(trace) >= 1
        /\ trace[1].fn = (IF call.op \in CheckOps THEN "NewJSONRequest"
                                                   ELSE "NewRequest")
        /\ trace[1].method = TableMethod
        /\ trace[1].path = TablePath
        /\ call.op \in CheckOps =>
              /\ trace[1].body = RenderForJSONAPI(call.check)
              /\ trace[1].body.name = call.check.Name
              /\ trace[1].body.interval = call.check.Interval
        /\ IF trace[1].err = NoError
           THEN /\ Len(trace) = 2
                /\ Exchanges = 1
                /\ trace[2].fn = "Do"
                /\ trace[2].method = TableMethod
                /\ trace[2].path = TablePath
           ELSE Len(trace) = 1 /\ Exchanges = 0

C3_Witness ==
    /\ call.op = "Update" /\ call.id = 42 /\ pc = "returned"
    /\ ret.err = NoError
    /\ Len(trace) = 2
    /\ trace[1].method = "PUT" /\ trace[1].path = "/tms/check/42"
    /\ trace[2].fn = "Do" /\ trace[2].path = "/tms/check/42"

(***************************************************************************)
(* The body a call rendered: the result of a direct call of                *)
(* RenderForJSONAPI, or what Create and Update handed to NewJSONRequest.   *)
(***************************************************************************)
Rendered ==
    \/ call.op = "RenderForJSONAPI" /\ pc = "returned"
    \/ call.op \in CheckOps /\ Done /\ trace # <<>>

Body == IF call.op = "RenderForJSONAPI" THEN ret.val.v ELSE trace[1].body

AlwaysKeys == {"name", "steps", "active"}

AllKeys ==
    AlwaysKeys \cup
    {"contact_ids", "custom_message", "integration_ids", "interval", "region",
     "severity_level", "send_notification_when_down", "tags", "team_ids"}

\* The optional keys whose field holds the zero value of its type.
ZeroKeys(ts) ==
    (IF ts.ContactIds.elems = <<>> THEN {"contact_ids"} ELSE {})
    \cup (IF ts.CustomMessage = "" THEN {"custom_message"} ELSE {})
    \cup (IF ts.IntegrationIds.elems = <<>> THEN {"integration_ids"} ELSE {})
    \cup (IF ts.Interval = 0 THEN {"interval"} ELSE {})
    \cup (IF ts.Region = "" THEN {"region"} ELSE {})
    \cup (IF ts.SeverityLevel = "" THEN {"severity_level"} ELSE {})
    \cup (IF ts.SendNotificationWhenDown = 0
          THEN {"send_notification_when_down"} ELSE {})
    \cup (IF ts.Tags = <<>> THEN {"tags"} ELSE {})
    \cup (IF ts.TeamIds.elems = <<>> THEN {"team_ids"} ELSE {})

C5_AsStated ==
    (call.op \in ReportOps /\ Done /\ BothSet(call.request)) =>
        (Rejected <=> Before(call.request.To[1], call.request.From[1]))

\* The fields of a report request other than From and To pass Valid().
OtherFieldsValid ==
    /\ call.request.Order \in {ASC, DESC, ""}
    /\ call.op = "StatusReportList" =>
          /\ call.request.Offset # NilPtr => call.request.Offset[1] >= 0
          /\ call.request.Limit # NilPtr => call.request.Limit[1] > 0
    /\ call.op = "PerformanceReport" =>
          call.request.Resolution \in {HOUR, DAY, WEEK, ""}

(***************************************************************************)
(* C5 amended: on a report request with From and To both set, Valid()      *)
(* returns an error whenever To is strictly before From, whatever the      *)
(* other fields hold; when the other fields are valid it returns an error  *)
(* exactly when To is strictly before From (From equal to To is accepted). *)
(***************************************************************************)
C5_ToBeforeFromRejected ==
    (call.op \in ReportOps /\ Done /\ BothSet(call.request)) =>
        /\ Before(call.request.To[1], call.request.From[1]) =>
              Rejected /\ ret.err = ErrFromTo
        /\ OtherFieldsValid =>
              (Rejected <=> Before(call.request.To[1], call.request.From[1]))

C5_Witness ==
    /\ call.op = "StatusReportList" /\ pc = "returned"
    /\ BothSet(call.request)
    /\ call.request.From = call.request.To
    /\ OtherFieldsValid /\ call.request.Limit # NilPtr
    /\ ret.err = NoError

(***************************************************************************)
(* C6 as stated: TmsPerformanceReportRequest.Valid() returns an error for  *)
(* every Resolution outside hour, day, week and every Order outside asc,   *)
(* desc and the empty string, so PerformanceReport sends no request whose  *)
(* Resolution is outside hour, day, week.                                  *)
(***************************************************************************)
C6_AsStated ==
    (call.op = "PerformanceReport" /\ Done) =>
        /\ call.request.Resolution \notin {HOUR, DAY, WEEK} => Rejected
        /\ call.request.Order \notin {ASC, DESC, ""} => Rejected
        /\ trace # <<>> => call.request.Resolution \in {HOUR, DAY, WEEK}

(***************************************************************************)
(* C6 amended: Valid() returns an error for every Resolution outside hour, *)
(* day, week and the empty string and every Order outside asc, desc and    *)
(* the empty string, so PerformanceReport sends no request whose           *)
(* Resolution is outside hour, day, week and the empty string; an empty    *)
(* Resolution is accepted and sent without a resolution parameter.         *)
(***************************************************************************)
C6_ResolutionChecked ==
    (call.op = "PerformanceReport" /\ Done) =>
        /\ call.request.Resolution \notin {HOUR, DAY, WEEK, ""} => Rejected
        /\ call.request.Order \notin {ASC, DESC, ""} => Rejected
        /\ trace # <<>> =>
              /\ call.request.Resolution \in {HOUR, DAY, WEEK, ""}
              /\ call.request.Resolution = "" =>
                    "resolution" \notin DOMAIN trace[1].params
              /\ call.request.Resolution # "" =>
                    /\ "resolution" \in DOMAIN trace[1].params
                    /\ trace[1].params["resolution"] = call.request.Resolution

C6_Witness ==
    /\ call.op = "PerformanceReport" /\ pc = "returned"
    /\ call.request.Resolution = "" /\ call.request.IncludeUptime
    /\ ret.err = NoError /\ Len(trace) = 2
    /\ "resolution" \notin DOMAIN trace[1].params

(***************************************************************************)
(* C7: TmsStatusReportListRequest.Valid() returns an error whenever Limit  *)
(* is set and at most 0 or Offset is set and below 0; with a valid time    *)
(* range and Order it succeeds at Limit 1 with Offset 0 and when both are  *)
(* unset.                                                                  *)
(***************************************************************************)
C7_LimitOffsetChecked ==
    (call.op = "StatusReportList" /\ Done) =>
        LET r == call.request
        IN  /\ (r.Limit # NilPtr /\ r.Limit[1] <= 0) => Rejected
            /\ (r.Offset # NilPtr /\ r.Offset[1] < 0) => Rejected
            /\ ( /\ ~(BothSet(r) /\ Before(r.To[1], r.From[1]))
                 /\ r.Order \in {ASC, DESC, ""}
                 /\ \/ r.Limit = Ptr(1) /\ r.Offset = Ptr(0)
                    \/ r.Limit = NilPtr /\ r.Offset = NilPtr )
               => ~Rejected /\ trace # <<>>

C7_Witness ==
    /\ call.op = "StatusReportList" /\ pc = "returned"
    /\ call.request.Limit = Ptr(1) /\ call.request.Offset = Ptr(0)
    /\ ret.err = NoError /\ Len(trace) = 2
    /\ trace[1].params["limit"] = "1" /\ trace[1].params["offset"] = "0"

(***************************************************************************)
(* The parameter mapping a call computed: the result of a direct call of   *)
(* GetParams, or what a report operation handed to NewRequest.             *)
(***************************************************************************)
GetParamsOps == {"ListGetParams", "ByIdGetParams", "PerfGetParams"}

Mapped ==
    \/ call.op \in GetParamsOps /\ pc = "returned"
    \/ call.op \in ReportOps /\ Done /\ trace # <<>>

Params == IF call.op \in GetParamsOps THEN ret.val.v ELSE trace[1].params

\* The keys of the request type of the call.
OwnKeys ==
    CASE call.op \in {"ListGetParams", "StatusReportList"} ->
            {"from", "to", "offset", "limit", "order", "omit_empty"}
      [] call.op \in {"ByIdGetParams", "StatusReportById"} ->
            {"from", "to", "order"}
      [] call.op \in {"PerfGetParams", "PerformanceReport"} ->
            {"from", "to", "order", "include_uptime", "resolution"}

\* The field of the request a key stands for is set.
FieldSet(k) ==
    LET r == call.request
    IN  CASE k = "from" -> r.From # NilPtr
          [] k = "to" -> r.To # NilPtr
          [] k = "offset" -> r.Offset # NilPtr
          [] k = "limit" -> r.Limit # NilPtr
          [] k = "order" -> r.Order # ""
          [] k = "resolution" -> r.Resolution # ""
          [] k = "omit_empty" -> r.OmitEmpty
          [] k = "include_uptime" -> r.IncludeUptime

(***************************************************************************)
(* C8: GetParams() of the three report requests has a key only for a field *)
(* that is set (from, to, offset, limit not nil, order and resolution not  *)
(* empty), has omit_empty and include_uptime only when the flag is true    *)
(* and then with the value "true", has no key outside the fields of its    *)
(* request type, and is empty for a request with nothing set.              *)
(***************************************************************************)
C8_ParamsOnlyForSetFields ==
    Mapped =>
        /\ DOMAIN Params \subseteq OwnKeys
        /\ \A k \in DOMAIN Params : FieldSet(k)
        /\ \A k \in DOMAIN Params \cap {"omit_empty", "include_uptime"} :
              Params[k] = "true"
        /\ (\A k \in OwnKeys : ~FieldSet(k)) => Params = EmptyMap

C8_Witness ==
    /\ call.op = "ListGetParams" /\ pc = "returned"
    /\ call.request.From # NilPtr /\ call.request.To = NilPtr
    /\ call.request.Limit = NilPtr /\ call.request.Offset = Ptr(1)
    /\ call.request.Order = "" /\ call.request.OmitEmpty
    /\ DOMAIN ret.val.v = {"from", "offset", "omit_empty"}
    /\ ret.val.v["omit_empty"] = "true"

(***************************************************************************)
(* The elements of a comma-separated string, by the places of its commas,  *)
(* and an element without the white space around it.                       *)
(***************************************************************************)
CommaPlaces(t) == {i \in 1..Len(t) : t[i] = Comma}

NthComma(t, n) ==
    CHOOSE i \in CommaPlaces(t) :
        Cardinality({j \in CommaPlaces(t) : j < i}) = n - 1

Element(t, n) ==
    LET from == IF n = 1 THEN 1 ELSE NthComma(t, n - 1) + 1
        to == IF n = Cardinality(CommaPlaces(t)) + 1
              THEN Len(t) ELSE NthComma(t, n) - 1
    IN  SubSeq(t, from, to)

Elements(t) == [n \in 1..(Cardinality(CommaPlaces(t)) + 1) |-> Element(t, n)]

Stripped(e) ==
    LET solid == {i \in 1..Len(e) : e[i] # " "}
    IN  IF solid = {} THEN <<>>
        ELSE SubSeq(e, CHOOSE i \in solid : \A j \in solid : i <= j,
                       CHOOSE i \in solid : \A j \in solid : j <= i)

\* The service answered the rendered check back.
Echoed ==
    /\ call.op \in CheckOps /\ pc = "returned" /\ ret.err = NoError
    /\ Len(trace) = 2
    /\ \E id \in (IF call.op = "Create" THEN ServerAssignedIds ELSE {call.id}) :
          trace[2].reply = Ptr(EchoResponse(trace[1].body, id))

\* Render a check and map the response that carries the rendered values.
RoundTrip(ts) ==
    fromTmsCheckResponse(EchoResponse(RenderForJSONAPI(ts), ts.ID))

(***************************************************************************)
(* C9: rendering a check and mapping a response that carries the rendered  *)
(* values back through fromTmsCheckResponse gives the same Name, Steps,    *)
(* Interval, Region and SeverityLevel, and the Tags whose comma-separated  *)
(* elements are those of the input with the white space around each        *)
(* removed; a second round trip changes nothing.                           *)
(***************************************************************************)
C9_RoundTrip ==
    (Echoed \/ (call.op = "RenderForJSONAPI" /\ pc = "returned")) =>
        LET in == call.check
            out == IF Echoed
                   THEN ret.val.v
                   ELSE fromTmsCheckResponse(EchoResponse(ret.val.v, in.ID))
        IN  /\ out.Name = in.Name
            /\ out.Steps = in.Steps
            /\ out.Interval = in.Interval
            /\ out.Region = in.Region
            /\ out.SeverityLevel = in.SeverityLevel
            /\ Len(Elements(out.Tags)) = Len(Elements(in.Tags))
            /\ \A n \in 1..Len(Elements(in.Tags)) :
                  Elements(out.Tags)[n] = Stripped(Elements(in.Tags)[n])
            /\ RoundTrip(out) = out

C9_Witness ==
    /\ Echoed /\ call.op = "Create"
    /\ call.check.Tags = <<" ", "a", ",">>
    /\ ret.val.v.Tags = <<"a", ",">>
    /\ ret.val.v.ID \in ServerAssignedIds

(***************************************************************************)
(* C10: when List gets a 2xx response whose body does not decode, the      *)
(* decode error is dropped: List returns a nil error and a list of checks, *)
(* possibly empty.  List returns an error only when building the request,  *)
(* the transport or the check of the response status fails.                *)
(***************************************************************************)
C10_ListDropsDecodeError ==
    (call.op = "List" /\ Done) =>
        /\ ( /\ Len(trace) = 2 /\ trace[2].err = NoError
             /\ trace[2].reply[1].status = "2xx"
             /\ trace[2].reply[1].body.kind \in {"syntax error", "type mismatch"} )
           => /\ pc = "returned"
              /\ ret.err = NoError
              /\ ~ret.val.isNil /\ ~ret.val.v.isNil
              /\ Len(ret.val.v.elems) <= Len(trace[2].reply[1].body.checks)
        /\ (pc = "returned" /\ ret.err # NoError) =>
              \/ trace[1].err # NoError /\ ret.err = RequestError
              \/ Len(trace) = 2 /\ trace[2].err # NoError
                 /\ ret.err = TransportError
              \/ Len(trace) = 2 /\ trace[2].err = NoError
                 /\ trace[2].reply[1].status # "2xx" /\ ret.err = ResponseError

C10_Witness ==
    /\ call.op = "List" /\ pc = "returned"
    /\ Len(trace) = 2 /\ trace[2].err = NoError
    /\ trace[2].reply[1].status = "2xx"
    /\ trace[2].reply[1].body.kind = "syntax error"
    /\ ret = [val |-> Value(MkSlice(<<>>)), err |-> NoError]

=============================================================================
